---- MODULE Spec2Model ----
(***************************************************************************)
(* Model of metasv/extract_pairs.py: the extraction of read pairs of a     *)
(* region of a BAM file into paired FASTQ files.                           *)
(*                                                                         *)
(* Spec   : one invocation of extract_read_pairs, statement by statement.  *)
(* FnSpec : calls of the pure helpers (get_sequence_quality, discordant,   *)
(*          ...) on arguments drawn from bounded sets.                     *)
(*                                                                         *)
(* pysam is a library outside the repository.  Its calls are modelled by   *)
(* what the code observes of them: fetch yields a sequence of alignments,  *)
(* mate either raises ValueError or yields the alignment of the same       *)
(* query name that carries the other read-end flag (pysam 0.7.7 looks the  *)
(* mate up by query name and by the READ1/READ2 flag of the read xor-ed).  *)
(* The model covers the invocations in which opening the files and the     *)
(* fetch succeed; an exception of these calls is not caught by the code    *)
(* and ends the process.                                                   *)
(***************************************************************************)
EXTENDS Integers, Sequences, FiniteSets, TLC

VARIABLES
    pc,                   \* position in extract_read_pairs
    region,               \* argument: the tokens of "chr:start-end"
    pad,                  \* argument
    max_read_pairs,       \* argument
    extract_fns,          \* argument: the extraction functions, by name
    chr_start,            \* local
    chr_end,              \* local
    selected_pair_counts, \* local
    aln_list,             \* local
    bam,                  \* the pysam.Samfile handle: "unopened", "open", "closed"
    fetch_calls,          \* number of bam.fetch calls made
    mate_calls,           \* the bam.mate calls made so far: argument and outcome
    aln_dict,             \* local: qname -> <<slot 0, slot 1>>
    todo,                 \* the entries aln_dict.values() has still to yield
    aln_pairs,            \* local
    fs,                   \* the file system: file name -> lines
    ends,                 \* local: per function <<end1 handle, end2 handle>>
    pair_idx,             \* position of the loop over aln_pairs
    fn_index,             \* position of the loop over extract_fns
    fn_calls,             \* the calls extract_fn(first, second) made so far
    log,                  \* the logger's records
    result,               \* the returned value
    fn_call,              \* FnSpec: the helper called and its arguments
    fn_ret                \* FnSpec: what it returned

vars == <<pc, region, pad, max_read_pairs, extract_fns, chr_start, chr_end,
          selected_pair_counts, aln_list, bam, fetch_calls, mate_calls, aln_dict,
          todo, aln_pairs, fs, ends, pair_idx, fn_index, fn_calls, log, result,
          fn_call, fn_ret>>

pipeline_vars == <<pc, region, pad, max_read_pairs, extract_fns, chr_start, chr_end,
          selected_pair_counts, aln_list, bam, fetch_calls, mate_calls, aln_dict,
          todo, aln_pairs, fs, ends, pair_idx, fn_index, fn_calls, log, result>>

-----------------------------------------------------------------------------
(* Bounds of the model *)

\* longest sequence / quality string of an alignment in FnSpec
MaxSeqLen == 2
\* most alignments one fetch returns
MaxFetch == 2

-----------------------------------------------------------------------------
(* Python values *)

None == [none |-> TRUE]

Reverse(s) == [i \in 1..Len(s) |-> s[Len(s) + 1 - i]]

Abs(n) == IF n < 0 THEN -n ELSE n

\* str.upper on one character
upper_char(c) ==
    CASE c = "a" -> "A"
      [] c = "c" -> "C"
      [] c = "g" -> "G"
      [] c = "t" -> "T"
      [] c = "n" -> "N"
      [] OTHER -> c

upper(seq) == [i \in 1..Len(seq) |-> upper_char(seq[i])]

-----------------------------------------------------------------------------
(* compl_table, compl, get_sequence_quality *)

\* compl_table: the identity on the 256 characters but for A, C, G, T
compl_table(c) ==
    CASE c = "A" -> "T"
      [] c = "C" -> "G"
      [] c = "G" -> "C"
      [] c = "T" -> "A"
      [] OTHER -> c

compl(seq) == [i \in 1..Len(seq) |-> compl_table(seq[i])]

\* faulty variant: the quality string is not reversed
get_sequence_quality_fwd_qual(aln) ==
    IF ~aln.is_reverse
    THEN <<upper(aln.seq), aln.qual>>
    ELSE <<Reverse(compl(upper(aln.seq))), aln.qual>>

get_sequence_quality(aln) ==
    IF ~aln.is_reverse
    THEN <<upper(aln.seq), aln.qual>>
    ELSE <<Reverse(compl(upper(aln.seq))), Reverse(aln.qual)>>

-----------------------------------------------------------------------------
(* The extraction functions *)

all_pair(aln, mate) == TRUE

\* faulty variant: the window excludes its two ends
discordant_strict(aln, mate, isize_min, isize_max) ==
    IF aln.tlen = 0 THEN TRUE
    ELSE ~(isize_min < Abs(aln.tlen) /\ Abs(aln.tlen) < isize_max)

discordant(aln, mate, isize_min, isize_max) ==
    IF aln.tlen = 0 THEN TRUE
    ELSE ~(isize_min <= Abs(aln.tlen) /\ Abs(aln.tlen) <= isize_max)

\* the default values of discordant's isize_min and isize_max
DefaultIsizeMin == 300
DefaultIsizeMax == 400

discordant_default(aln, mate) == discordant(aln, mate, DefaultIsizeMin, DefaultIsizeMax)

\* extract_fn(first, second) for the extraction function of the given __name__
apply_extract_fn(name, first, second) ==
    CASE name = "all_pair" -> all_pair(first, second)
      [] name = "discordant" -> discordant_default(first, second)

-----------------------------------------------------------------------------
(* write_read *)

\* faulty variant: every read is labelled as the first end
end_id_always_1(aln) == 1

\* end_id = 1 if aln.is_read1 else 2
end_id(aln) == IF aln.is_read1 THEN 1 ELSE 2

\* the four lines of "@%s/%d\n%s\n+\n%s\n"
fastq_record(aln) ==
    LET sq == get_sequence_quality(aln)
    IN  << <<"@", aln.qname, "/", end_id(aln)>>, sq[1], <<"+">>, sq[2] >>

\* fd.write of the record on the file of handle fd
write_read(files, fd, aln) ==
    [files EXCEPT ![fd.name] = @ \o fastq_record(aln)]

-----------------------------------------------------------------------------
(* The inputs of one invocation *)

QNames == {"q1", "q2"}

\* the template length of the reads of a template: q1 has none, q2 one inside
\* the default window of discordant
template_length(q) == IF q = "q1" THEN 0 ELSE 350

\* an alignment as pysam hands it out; the bases and qualities of a read are
\* those of its end of the template
Aln(q, r1, sec, rev) ==
    [qname |-> q, is_read1 |-> r1, is_secondary |-> sec, is_reverse |-> rev,
     tlen |-> template_length(q),
     seq |-> IF r1 THEN <<"A", "C">> ELSE <<"G", "N">>,
     qual |-> IF r1 THEN <<"I", "#">> ELSE <<"5", "!">>]

Alignments ==
    {Aln(q, r1, sec, rev) :
        q \in QNames, r1 \in BOOLEAN, sec \in BOOLEAN, rev \in BOOLEAN}

\* what bam.fetch may yield: up to MaxFetch alignments, in retrieval order
BamFetches == UNION {[1..n -> Alignments] : n \in 0..MaxFetch}

Regions == {<<"chr1", ":", 0, "-", 5>>, <<"chr1", ":", 1, "-", 5>>}
Pads == {0, 2}
Ceilings == {0, 1, 2}
\* the functions requested: none, one, or two of distinct names
FnLists == {<<>>, <<"discordant">>, <<"all_pair", "discordant">>}
prefix == "out"

\* faulty variant: both handles of a function name the end1 file
fq_name_end1_only(pre, name, end) == pre \o "_" \o name \o "_1.fq"

\* "%s_%s_1.fq" % (prefix, name) and "%s_%s_2.fq" % (prefix, name)
fq_name(pre, name, end) ==
    pre \o "_" \o name \o (IF end = 1 THEN "_1.fq" ELSE "_2.fq")

\* the files on disk at the call: one of an earlier run
StaleFiles == fq_name(prefix, "discordant", 1) :> << <<"stale">> >>

-----------------------------------------------------------------------------
(* extract_read_pairs, statement by statement *)

Info(msg) == <<"INFO", msg>>
Error(msg) == <<"ERROR", msg>>

Init ==
    /\ pc = "start"
    /\ region \in Regions
    /\ pad \in Pads
    /\ max_read_pairs \in Ceilings
    /\ extract_fns \in FnLists
    /\ fs = StaleFiles
    /\ chr_start = None
    /\ chr_end = None
    /\ selected_pair_counts = <<>>
    /\ aln_list = <<>>
    /\ bam = "unopened"
    /\ fetch_calls = 0
    /\ mate_calls = <<>>
    /\ aln_dict = <<>>
    /\ todo = {}
    /\ aln_pairs = <<>>
    /\ ends = <<>>
    /\ pair_idx = 0
    /\ fn_index = 0
    /\ fn_calls = <<>>
    /\ log = <<>>
    /\ result = None
    /\ fn_call = None
    /\ fn_ret = None

\* the logger.info of the call, region.split(...), the counts, pysam.Samfile(...)
Begin ==
    /\ pc = "start"
    /\ log' = Append(log, Info("Extracting reads"))
    /\ chr_start' = region[3] - pad
    /\ chr_end' = region[5] + pad
    /\ selected_pair_counts' = [i \in 1..Len(extract_fns) |-> 0]
    /\ aln_list' = <<>>
    /\ bam' = "open"
    /\ pc' = "opened"
    /\ UNCHANGED <<region, pad, max_read_pairs, extract_fns, fetch_calls, mate_calls,
                   aln_dict, todo, aln_pairs, fs, ends, pair_idx, fn_index, fn_calls,
                   result, fn_call, fn_ret>>

\* faulty variant: a padded start of -1 is let through
is_negative_start_off_by_one(start) == start < -1

\* if chr_start < 0
is_negative_start(start) == start < 0

SkipNegativeStart ==
    /\ pc = "opened"
    /\ is_negative_start(chr_start)
    /\ log' = Append(log, Error("Skipping read extraction since interval too close to chromosome beginning"))
    /\ pc' = "build"
    /\ UNCHANGED <<region, pad, max_read_pairs, extract_fns, chr_start, chr_end,
                   selected_pair_counts, aln_list, bam, fetch_calls, mate_calls,
                   aln_dict, todo, aln_pairs, fs, ends, pair_idx, fn_index, fn_calls,
                   result, fn_call, fn_ret>>

\* [aln for aln in alns if not aln.is_secondary]
non_secondary(alns) == SelectSeq(alns, LAMBDA aln : ~aln.is_secondary)

Fetch ==
    /\ pc = "opened"
    /\ ~is_negative_start(chr_start)
    /\ bam = "open"
    /\ \E fetched \in BamFetches : aln_list' = non_secondary(fetched)
    /\ fetch_calls' = fetch_calls + 1
    /\ pc' = "build"
    /\ UNCHANGED <<region, pad, max_read_pairs, extract_fns, chr_start, chr_end,
                   selected_pair_counts, bam, mate_calls, aln_dict, todo, aln_pairs,
                   fs, ends, pair_idx, fn_index, fn_calls, log, result, fn_call, fn_ret>>

\* slot 0 and slot 1 of an entry are the elements 1 and 2 of a tuple.
\* faulty variant: an alignment does not replace an earlier one of its slot
RECURSIVE build_aln_dict_first_wins(_, _)
build_aln_dict_first_wins(dict, alns) ==
    IF alns = <<>> THEN dict
    ELSE LET aln == Head(alns)
             d1 == IF aln.qname \notin DOMAIN dict
                   THEN dict @@ (aln.qname :> <<None, None>>)
                   ELSE dict
             slot == IF aln.is_read1 THEN 1 ELSE 2
         IN build_aln_dict_first_wins(
                IF d1[aln.qname][slot] = None
                THEN [d1 EXCEPT ![aln.qname][slot] = aln] ELSE d1,
                Tail(alns))

\* for aln in aln_list: ... aln_dict[aln.qname][0 if aln.is_read1 else 1] = aln
RECURSIVE build_aln_dict(_, _)
build_aln_dict(dict, alns) ==
    IF alns = <<>> THEN dict
    ELSE LET aln == Head(alns)
             d1 == IF aln.qname \notin DOMAIN dict
                   THEN dict @@ (aln.qname :> <<None, None>>)
                   ELSE dict
             slot == IF aln.is_read1 THEN 1 ELSE 2
         IN build_aln_dict([d1 EXCEPT ![aln.qname][slot] = aln], Tail(alns))

BuildDict ==
    /\ pc = "build"
    /\ aln_dict' = build_aln_dict(<<>>, aln_list)
    /\ pc' = "ceiling"
    /\ UNCHANGED <<region, pad, max_read_pairs, extract_fns, chr_start, chr_end,
                   selected_pair_counts, aln_list, bam, fetch_calls, mate_calls, todo,
                   aln_pairs, fs, ends, pair_idx, fn_index, fn_calls, log, result,
                   fn_call, fn_ret>>

\* faulty variant: the ceiling is not applied
within_ceiling_always(n, ceiling) == TRUE

\* len(aln_dict) <= max_read_pairs
within_ceiling(n, ceiling) == n <= ceiling

BeginResolve ==
    /\ pc = "ceiling"
    /\ within_ceiling(Cardinality(DOMAIN aln_dict), max_read_pairs)
    /\ log' = Append(log, Info("Building mate dictionary"))
    /\ todo' = DOMAIN aln_dict
    /\ pc' = IF DOMAIN aln_dict = {} THEN "close_bam" ELSE "resolve"
    /\ UNCHANGED <<region, pad, max_read_pairs, extract_fns, chr_start, chr_end,
                   selected_pair_counts, aln_list, bam, fetch_calls, mate_calls,
                   aln_dict, aln_pairs, fs, ends, pair_idx, fn_index, fn_calls,
                   result, fn_call, fn_ret>>

TooManyReads ==
    /\ pc = "ceiling"
    /\ ~within_ceiling(Cardinality(DOMAIN aln_dict), max_read_pairs)
    /\ log' = Append(log, Info("Too many reads encountered. Skipping read extraction."))
    /\ pc' = "close_bam"
    /\ UNCHANGED <<region, pad, max_read_pairs, extract_fns, chr_start, chr_end,
                   selected_pair_counts, aln_list, bam, fetch_calls, mate_calls,
                   aln_dict, todo, aln_pairs, fs, ends, pair_idx, fn_index, fn_calls,
                   result, fn_call, fn_ret>>

\* faulty variant: every entry is taken to be complete
missing_index_never(aln_pair) == 2

\* 0 if aln_pair[0] is None else (1 if aln_pair[1] is None else 2)
missing_index(aln_pair) ==
    IF aln_pair[1] = None THEN 0 ELSE (IF aln_pair[2] = None THEN 1 ELSE 2)

\* bam.mate(aln): None stands for the ValueError raised (mate is left None);
\* otherwise the alignment of the same query name with the other read-end flag
mate_outcomes(aln) ==
    {None} \cup {Aln(aln.qname, ~aln.is_read1, FALSE, rev) : rev \in BOOLEAN}

\* one turn of: for aln_pair in aln_dict.values()
ResolveComplete ==
    /\ pc = "resolve"
    /\ \E q \in todo :
        /\ missing_index(aln_dict[q]) >= 2
        /\ aln_pairs' = Append(aln_pairs, aln_dict[q])
        /\ todo' = todo \ {q}
    /\ pc' = IF todo' = {} THEN "close_bam" ELSE "resolve"
    /\ UNCHANGED <<region, pad, max_read_pairs, extract_fns, chr_start, chr_end,
                   selected_pair_counts, aln_list, bam, fetch_calls, mate_calls,
                   aln_dict, fs, ends, pair_idx, fn_index, fn_calls, log, result,
                   fn_call, fn_ret>>

ResolveMate ==
    /\ pc = "resolve"
    /\ bam = "open"
    /\ \E q \in todo :
        LET aln_pair == aln_dict[q]
            mi == missing_index(aln_pair)
        IN  /\ mi < 2
            /\ \E mate \in mate_outcomes(aln_pair[(1 - mi) + 1]) :
                /\ mate_calls' = Append(mate_calls,
                                        [arg |-> aln_pair[(1 - mi) + 1], ret |-> mate])
                /\ IF mate # None
                   THEN /\ aln_dict' = [aln_dict EXCEPT ![q][mi + 1] = mate]
                        /\ aln_pairs' = Append(aln_pairs, aln_dict'[q])
                   ELSE UNCHANGED <<aln_dict, aln_pairs>>
            /\ todo' = todo \ {q}
    /\ pc' = IF todo' = {} THEN "close_bam" ELSE "resolve"
    /\ UNCHANGED <<region, pad, max_read_pairs, extract_fns, chr_start, chr_end,
                   selected_pair_counts, aln_list, bam, fetch_calls, fs, ends,
                   pair_idx, fn_index, fn_calls, log, result, fn_call, fn_ret>>

\* faulty variant: the BAM handle is left open
CloseBam_forgotten ==
    /\ pc = "close_bam"
    /\ pc' = "open_out"
    /\ UNCHANGED <<region, pad, max_read_pairs, extract_fns, chr_start, chr_end,
                   selected_pair_counts, aln_list, bam, fetch_calls, mate_calls,
                   aln_dict, todo, aln_pairs, fs, ends, pair_idx, fn_index, fn_calls,
                   log, result, fn_call, fn_ret>>

\* bam.close()
CloseBam ==
    /\ pc = "close_bam"
    /\ bam' = "closed"
    /\ pc' = "open_out"
    /\ UNCHANGED <<region, pad, max_read_pairs, extract_fns, chr_start, chr_end,
                   selected_pair_counts, aln_list, fetch_calls, mate_calls,
                   aln_dict, todo, aln_pairs, fs, ends, pair_idx, fn_index, fn_calls,
                   log, result, fn_call, fn_ret>>

\* open(name, "w"): the handle
open_w(name) == [name |-> name, closed |-> FALSE]

\* ends = [(open("%s_%s_1.fq" ...), open("%s_%s_2.fq" ...)) for name in extract_fn_names]
open_ends(fns) ==
    [i \in 1..Len(fns) |->
        <<open_w(fq_name(prefix, fns[i], 1)), open_w(fq_name(prefix, fns[i], 2))>>]

\* open(name, "w") creates the file or truncates it
create_or_truncate(files, names) ==
    [f \in (DOMAIN files) \cup names |-> IF f \in names THEN <<>> ELSE files[f]]

\* the position after the turn (p, f) of the two nested loops
loop_next(p, f) ==
    IF f < Len(extract_fns) THEN <<p, f + 1>> ELSE <<p + 1, 1>>

OpenOutputs ==
    /\ pc = "open_out"
    /\ ends' = open_ends(extract_fns)
    /\ fs' = create_or_truncate(fs, {ends'[i][e].name : i \in 1..Len(ends'), e \in 1..2})
    /\ pair_idx' = 1
    /\ fn_index' = 1
    /\ pc' = IF Len(aln_pairs) = 0 \/ Len(extract_fns) = 0 THEN "close_out" ELSE "emit"
    /\ UNCHANGED <<region, pad, max_read_pairs, extract_fns, chr_start, chr_end,
                   selected_pair_counts, aln_list, bam, fetch_calls, mate_calls,
                   aln_dict, todo, aln_pairs, fn_calls, log, result, fn_call, fn_ret>>

\* faulty variant: the second read is not written
emit_pair_first_only(files, handles, first, second) ==
    write_read(files, handles[1], first)

\* write_read(ends[fn_index][0], first); write_read(ends[fn_index][1], second)
emit_pair(files, handles, first, second) ==
    write_read(write_read(files, handles[1], first), handles[2], second)

\* one turn of: for first, second in aln_pairs: for fn_index, extract_fn in ...
Emit ==
    /\ pc = "emit"
    /\ LET first == aln_pairs[pair_idx][1]
           second == aln_pairs[pair_idx][2]
           selected == apply_extract_fn(extract_fns[fn_index], first, second)
           nxt == loop_next(pair_idx, fn_index)
       IN  /\ fn_calls' = Append(fn_calls, [fn_index |-> fn_index, first |-> first,
                                            second |-> second, ret |-> selected])
           /\ IF selected
              THEN /\ ~ends[fn_index][1].closed
                   /\ ~ends[fn_index][2].closed
                   /\ fs' = emit_pair(fs, ends[fn_index], first, second)
                   /\ selected_pair_counts' =
                        [selected_pair_counts EXCEPT ![fn_index] = @ + 1]
              ELSE UNCHANGED <<fs, selected_pair_counts>>
           /\ pair_idx' = nxt[1]
           /\ fn_index' = nxt[2]
           /\ pc' = IF nxt[1] > Len(aln_pairs) THEN "close_out" ELSE "emit"
    /\ UNCHANGED <<region, pad, max_read_pairs, extract_fns, chr_start, chr_end,
                   aln_list, bam, fetch_calls, mate_calls, aln_dict, todo, aln_pairs,
                   ends, log, result, fn_call, fn_ret>>

\* for end1, end2 in ends: end1.close(); end2.close()
CloseOutputs ==
    /\ pc = "close_out"
    /\ ends' = [i \in 1..Len(ends) |->
                  <<[ends[i][1] EXCEPT !.closed = TRUE],
                    [ends[i][2] EXCEPT !.closed = TRUE]>>]
    /\ pc' = "return"
    /\ UNCHANGED <<region, pad, max_read_pairs, extract_fns, chr_start, chr_end,
                   selected_pair_counts, aln_list, bam, fetch_calls, mate_calls,
                   aln_dict, todo, aln_pairs, fs, pair_idx, fn_index, fn_calls,
                   log, result, fn_call, fn_ret>>

\* zip([(end[0].name, end[1].name) for end in ends], selected_pair_counts)
zip_result(handles, counts) ==
    [i \in 1..(IF Len(handles) < Len(counts) THEN Len(handles) ELSE Len(counts)) |->
        << <<handles[i][1].name, handles[i][2].name>>, counts[i] >>]

Return ==
    /\ pc = "return"
    /\ log' = log \o <<Info("Examined pairs"), Info("Extraction counts")>>
    /\ result' = zip_result(ends, selected_pair_counts)
    /\ pc' = "done"
    /\ UNCHANGED <<region, pad, max_read_pairs, extract_fns, chr_start, chr_end,
                   selected_pair_counts, aln_list, bam, fetch_calls, mate_calls,
                   aln_dict, todo, aln_pairs, fs, ends, pair_idx, fn_index, fn_calls,
                   fn_call, fn_ret>>

Next ==
    \/ Begin
    \/ SkipNegativeStart
    \/ Fetch
    \/ BuildDict
    \/ BeginResolve
    \/ TooManyReads
    \/ ResolveComplete
    \/ ResolveMate
    \/ CloseBam
    \/ OpenOutputs
    \/ Emit
    \/ CloseOutputs
    \/ Return

Spec == Init /\ [][Next]_vars

-----------------------------------------------------------------------------
(* Calls of the pure helpers *)

\* bases as a BAM record decodes them
Bases == {"A", "C", "G", "T", "N"}
QualChars == {"!", "I"}

\* the alignments get_sequence_quality is called on: a sequence and a quality
\* string of one length
SeqAlignments ==
    UNION {[is_reverse : BOOLEAN, seq : [1..n -> Bases], qual : [1..n -> QualChars]] :
              n \in 0..MaxSeqLen}

TLenValues == {-501, -401, -400, -350, -300, -299, -199, 0,
               199, 200, 299, 300, 350, 400, 401, 500, 501}
MateTLenValues == {-350, 0, 350}
IsizeBounds == {<<300, 400>>, <<200, 500>>}

FnCalls ==
    [fn : {"get_sequence_quality"}, aln : SeqAlignments]
    \cup [fn : {"discordant"}, aln : [tlen : TLenValues], mate : [tlen : MateTLenValues],
          isize : IsizeBounds]
    \cup [fn : {"discordant_default"}, aln : [tlen : TLenValues],
          mate : [tlen : MateTLenValues]]

FnInit ==
    /\ pc = "idle"
    /\ region = None
    /\ pad = None
    /\ max_read_pairs = None
    /\ extract_fns = <<>>
    /\ fs = <<>>
    /\ chr_start = None
    /\ chr_end = None
    /\ selected_pair_counts = <<>>
    /\ aln_list = <<>>
    /\ bam = "unopened"
    /\ fetch_calls = 0
    /\ mate_calls = <<>>
    /\ aln_dict = <<>>
    /\ todo = {}
    /\ aln_pairs = <<>>
    /\ ends = <<>>
    /\ pair_idx = 0
    /\ fn_index = 0
    /\ fn_calls = <<>>
    /\ log = <<>>
    /\ result = None
    /\ fn_call \in FnCalls
    /\ fn_ret = None

Call_get_sequence_quality ==
    /\ fn_call.fn = "get_sequence_quality"
    /\ fn_ret = None
    /\ fn_ret' = [value |-> get_sequence_quality(fn_call.aln)]
    /\ UNCHANGED <<pipeline_vars, fn_call>>

Call_discordant ==
    /\ fn_call.fn = "discordant"
    /\ fn_ret = None
    /\ fn_ret' = [value |-> discordant(fn_call.aln, fn_call.mate,
                                       fn_call.isize[1], fn_call.isize[2])]
    /\ UNCHANGED <<pipeline_vars, fn_call>>

Call_discordant_default ==
    /\ fn_call.fn = "discordant_default"
    /\ fn_ret = None
    /\ fn_ret' = [value |-> discordant_default(fn_call.aln, fn_call.mate)]
    /\ UNCHANGED <<pipeline_vars, fn_call>>

FnNext ==
    \/ Call_get_sequence_quality
    \/ Call_discordant
    \/ Call_discordant_default

FnSpec == FnInit /\ [][FnNext]_vars

-----------------------------------------------------------------------------
(* Properties of extract_read_pairs *)

Range(f) == {f[i] : i \in DOMAIN f}

\* the lines of the output file of function i, end e, once the files are open
OutputFile(i, e) == fs[fq_name(prefix, extract_fns[i], e)]

OutputsOpened == pc \in {"emit", "close_out", "return", "done"}

\* the distinct query names among the fetched non-secondary alignments
FetchedNames == {aln_list[i].qname : i \in 1..Len(aln_list)}

NegativePaddedStart == region[3] - pad < 0

\* C1: when start - pad < 0 the fetch is never attempted, no pair reaches the
\* filter stage, no line is written to any output file, every returned count is
\* 0 and an error is logged; the invocation goes on to return (it is never
\* stuck before its return).
C1_NegativeStartYieldsNothing ==
    NegativePaddedStart =>
        /\ fetch_calls = 0
        /\ aln_pairs = <<>>
        /\ fn_calls = <<>>
        /\ pc \notin {"start", "opened"} =>
              \E k \in 1..Len(log) : log[k][1] = "ERROR"
        /\ OutputsOpened =>
              \A i \in 1..Len(extract_fns) : \A e \in 1..2 : OutputFile(i, e) = <<>>
        /\ pc = "done" =>
              /\ Len(result) = Len(extract_fns)
              /\ \A i \in 1..Len(result) : result[i][2] = 0
        /\ pc # "done" => ENABLED Next

C1_Witness ==
    /\ NegativePaddedStart
    /\ pc = "done"
    /\ Len(result) = 2
    /\ \E k \in 1..Len(log) : log[k][1] = "ERROR"

\* C2: if the number N of distinct query names among the fetched non-secondary
\* alignments exceeds max_read_pairs, no mate lookup is made, no pair is passed
\* to an extraction function, every output file stays empty and every returned
\* count is 0; if N <= max_read_pairs the mate resolution runs (one lookup per
\* name with a single read fetched, every name with both reads fetched becomes
\* a pair) and every resolved pair is passed to every extraction function.
SingleReadNames ==
    {q \in FetchedNames :
        \/ \A i \in 1..Len(aln_list) : aln_list[i].qname = q => aln_list[i].is_read1
        \/ \A i \in 1..Len(aln_list) : aln_list[i].qname = q => ~aln_list[i].is_read1}

C2_CeilingSkipsExtraction ==
    pc \notin {"start", "opened"} =>
        IF Cardinality(FetchedNames) > max_read_pairs
        THEN /\ pc \notin {"build", "ceiling"} =>
                   \E k \in 1..Len(log) :
                       log[k] = Info("Too many reads encountered. Skipping read extraction.")
             /\ mate_calls = <<>>
             /\ aln_pairs = <<>>
             /\ fn_calls = <<>>
             /\ OutputsOpened =>
                   \A i \in 1..Len(extract_fns) : \A e \in 1..2 : OutputFile(i, e) = <<>>
             /\ pc = "done" => \A i \in 1..Len(result) : result[i][2] = 0
        ELSE /\ pc \in {"close_bam", "open_out", "emit", "close_out", "return", "done"} =>
                   /\ Len(mate_calls) = Cardinality(SingleReadNames)
                   /\ \A q \in FetchedNames \ SingleReadNames :
                         \E k \in 1..Len(aln_pairs) : aln_pairs[k][1].qname = q
             /\ pc \in {"close_out", "return", "done"} =>
                   Len(fn_calls) = Len(aln_pairs) * Len(extract_fns)

C2_Witness ==
    /\ pc = "done"
    /\ Cardinality(FetchedNames) > max_read_pairs
    /\ Len(extract_fns) = 2
    /\ \E i \in 1..Len(aln_list) : aln_list[i].is_read1 /\ aln_list[i].tlen = 0
    /\ \E i \in 1..Len(aln_list) : ~aln_list[i].is_read1 /\ aln_list[i].tlen # 0

\* C3: every pair handed to an extraction function has both slots filled; a
\* name with both reads fetched is passed on as fetched, a name with one read
\* fetched is passed on only with the mate the lookup returned, and a pair whose
\* lookup raised is in no call, no output file and no count.
Filled(aln_pair) == aln_pair[1] # None /\ aln_pair[2] # None

HeaderNames(lines) == {lines[k][2] : k \in {j \in 1..Len(lines) : j % 4 = 1}}

C3_OnlyFilledPairsReachFilter ==
    /\ \A k \in 1..Len(aln_pairs) : Filled(aln_pairs[k])
    /\ \A c \in 1..Len(fn_calls) :
          /\ fn_calls[c].first # None
          /\ fn_calls[c].second # None
          /\ fn_calls[c].first.qname = fn_calls[c].second.qname
    /\ \A k \in 1..Len(aln_pairs) :
          LET q == aln_pairs[k][1].qname
          IN  IF q \in SingleReadNames
              THEN \E m \in 1..Len(mate_calls) :
                      /\ mate_calls[m].ret # None
                      /\ {mate_calls[m].arg, mate_calls[m].ret} =
                            {aln_pairs[k][1], aln_pairs[k][2]}
              ELSE /\ aln_pairs[k][1] \in Range(aln_list)
                   /\ aln_pairs[k][2] \in Range(aln_list)
    /\ \A m \in 1..Len(mate_calls) :
          mate_calls[m].ret = None =>
              LET q == mate_calls[m].arg.qname
              IN  /\ \A k \in 1..Len(aln_pairs) : aln_pairs[k][1].qname # q
                  /\ \A c \in 1..Len(fn_calls) : fn_calls[c].first.qname # q
                  /\ OutputsOpened =>
                        \A i \in 1..Len(extract_fns) : \A e \in 1..2 :
                            q \notin HeaderNames(OutputFile(i, e))
                  /\ pc = "done" =>
                        \A i \in 1..Len(result) :
                            result[i][2] <= Len(aln_pairs)

C3_Witness ==
    /\ pc = "done"
    /\ Len(mate_calls) = 2
    /\ mate_calls[1].ret = None
    /\ mate_calls[2].ret # None
    /\ Len(aln_pairs) = 1
    /\ \E i \in 1..Len(result) : result[i][2] = 1

\* the turn (pair k, function i) of the emit loops has been made
Processed(k, i) ==
    \/ pc \in {"close_out", "return", "done"}
    \/ pc = "emit" /\ (k < pair_idx \/ (k = pair_idx /\ i < fn_index))

\* the resolved pairs function i has been applied to and returned true for
SelectedPairs(i) ==
    SelectSeq([k \in 1..Len(aln_pairs) |-> [k |-> k, pair |-> aln_pairs[k]]],
              LAMBDA x : /\ Processed(x.k, i)
                         /\ apply_extract_fn(extract_fns[i], x.pair[1], x.pair[2]))

\* record k (of four lines) of a file
RecordOf(lines, k) == SubSeq(lines, 4 * k - 3, 4 * k)

\* C4: a resolved pair is written to channel i exactly if function i returns
\* true for it, whatever the other functions return, as one 4-line record on
\* each of the two files of channel i: the first read on the end1 file, the
\* second on the end2 file.  So both files hold as many records as pairs were
\* selected, record k of both comes from the k-th selected pair, and the count
\* of channel i (also the one returned) is that number.
C4_SelectedPairsWrittenPairwise ==
    OutputsOpened =>
        \A i \in 1..Len(extract_fns) :
            LET sel == SelectedPairs(i)
            IN  /\ Len(OutputFile(i, 1)) = 4 * Len(sel)
                /\ Len(OutputFile(i, 2)) = 4 * Len(sel)
                /\ \A k \in 1..Len(sel) :
                      /\ RecordOf(OutputFile(i, 1), k)[1][2] = sel[k].pair[1].qname
                      /\ RecordOf(OutputFile(i, 2), k)[1][2] = sel[k].pair[2].qname
                      /\ RecordOf(OutputFile(i, 1), k)[2] =
                            get_sequence_quality(sel[k].pair[1])[1]
                      /\ RecordOf(OutputFile(i, 2), k)[2] =
                            get_sequence_quality(sel[k].pair[2])[1]
                      /\ RecordOf(OutputFile(i, 1), k)[4] =
                            get_sequence_quality(sel[k].pair[1])[2]
                      /\ RecordOf(OutputFile(i, 2), k)[4] =
                            get_sequence_quality(sel[k].pair[2])[2]
                      /\ RecordOf(OutputFile(i, 1), k)[3] = <<"+">>
                      /\ RecordOf(OutputFile(i, 2), k)[3] = <<"+">>
                      /\ RecordOf(OutputFile(i, 1), k)[1][2] =
                            RecordOf(OutputFile(i, 2), k)[1][2]
                /\ selected_pair_counts[i] = Len(sel)
                /\ pc = "done" => result[i][2] = Len(sel)

C4_Witness ==
    /\ pc = "done"
    /\ extract_fns = <<"all_pair", "discordant">>
    /\ Len(aln_pairs) = 2
    /\ result[1][2] = 2
    /\ result[2][2] = 1
    /\ Len(OutputFile(2, 1)) = 4
    /\ Len(OutputFile(2, 2)) = 4

\* C7: an invocation that has returned (also by the negative padded start and
\* the too-many-read-pairs paths, and when no pair matched) has created for
\* each requested function its own two files <prefix>_<name>_1.fq and
\* <prefix>_<name>_2.fq, and returns one (file names, count) entry per function
\* in the order the functions were given.
C7_OutputFilesAlwaysCreated ==
    pc = "done" =>
        /\ Len(result) = Len(extract_fns)
        /\ \A i \in 1..Len(extract_fns) :
              /\ result[i][1] = <<prefix \o "_" \o extract_fns[i] \o "_1.fq",
                                  prefix \o "_" \o extract_fns[i] \o "_2.fq">>
              /\ result[i][1][1] \in DOMAIN fs
              /\ result[i][1][2] \in DOMAIN fs
              /\ result[i][1][1] # result[i][1][2]
              /\ result[i][2] = selected_pair_counts[i]
        /\ \A i, j \in 1..Len(extract_fns) :
              i # j => {result[i][1][1], result[i][1][2]}
                          \cap {result[j][1][1], result[j][1][2]} = {}

C7_Witness ==
    /\ pc = "done"
    /\ Len(extract_fns) = 2
    /\ Cardinality(FetchedNames) > max_read_pairs
    /\ {"out_all_pair_1.fq", "out_all_pair_2.fq",
        "out_discordant_1.fq", "out_discordant_2.fq"} \subseteq DOMAIN fs
    /\ \A f \in DOMAIN fs : fs[f] = <<>>

\* the last alignment of a list that satisfies a test, None when there is none
LastOf(alns, Test(_)) ==
    LET hits == {i \in 1..Len(alns) : Test(alns[i])}
    IN  IF hits = {} THEN None
        ELSE alns[CHOOSE i \in hits : \A j \in hits : j <= i]

\* C8: in the mapping built from the fetched alignments, slot 0 of a name holds
\* the last-fetched read1 alignment of that name and slot 1 the last-fetched
\* read2 alignment (a slot no alignment was fetched for is empty until the mate
\* lookup fills it); so a query name yields at most one pair at the filter
\* stage and at most one record per file of each channel.
C8_LastFetchedWinsSlot ==
    /\ pc \notin {"start", "opened", "build"} =>
          /\ DOMAIN aln_dict = FetchedNames
          /\ \A q \in DOMAIN aln_dict :
                LET last1 == LastOf(aln_list, LAMBDA a : a.qname = q /\ a.is_read1)
                    last2 == LastOf(aln_list, LAMBDA a : a.qname = q /\ ~a.is_read1)
                IN  /\ last1 # None => aln_dict[q][1] = last1
                    /\ last2 # None => aln_dict[q][2] = last2
                    /\ (last1 = None /\ pc = "ceiling") => aln_dict[q][1] = None
                    /\ (last2 = None /\ pc = "ceiling") => aln_dict[q][2] = None
    /\ \A j, k \in 1..Len(aln_pairs) :
          j # k => aln_pairs[j][1].qname # aln_pairs[k][1].qname
    /\ OutputsOpened =>
          \A i \in 1..Len(extract_fns) : \A e \in 1..2 :
              \A j, k \in 1..(Len(OutputFile(i, e)) \div 4) :
                  j # k => RecordOf(OutputFile(i, e), j)[1][2] #
                           RecordOf(OutputFile(i, e), k)[1][2]

C8_Witness ==
    /\ pc = "done"
    /\ Len(aln_list) = 2
    /\ aln_list[1].qname = aln_list[2].qname
    /\ aln_list[1].is_read1
    /\ aln_list[2].is_read1
    /\ aln_list[1] # aln_list[2]
    /\ Len(aln_pairs) = 1
    /\ aln_pairs[1][1] = aln_list[2]
    /\ \E i \in 1..Len(result) : result[i][2] = 1

C10_HeaderSuffixMatchesFile ==
    OutputsOpened =>
        \A i \in 1..Len(extract_fns) : \A e \in 1..2 :
            \A k \in 1..(Len(OutputFile(i, e)) \div 4) :
                LET header == RecordOf(OutputFile(i, e), k)[1]
                IN  /\ Len(header) = 4
                    /\ header[1] = "@"
                    /\ header[3] = "/"
                    /\ header[4] = e

C10_Witness ==
    /\ pc = "done"
    /\ Len(mate_calls) = 2
    /\ mate_calls[1].ret # None
    /\ mate_calls[2].ret # None
    /\ mate_calls[1].arg.is_read1
    /\ ~mate_calls[2].arg.is_read1
    /\ \E i \in 1..Len(result) : result[i][2] = 2

-----------------------------------------------------------------------------
(* Properties of the pure helpers *)

Returned(fn) == fn_call # None /\ fn_call.fn = fn /\ fn_ret # None

\* the complement of a base: A <-> T, C <-> G, any other character itself
BaseComplement(c) ==
    IF c = "A" THEN "T" ELSE IF c = "T" THEN "A"
    ELSE IF c = "C" THEN "G" ELSE IF c = "G" THEN "C" ELSE c

\* C5: for a reverse-strand alignment get_sequence_quality returns the reverse
\* complement of the raw sequence and the exact reverse of the raw quality
\* string; for a forward-strand alignment the upper-cased sequence and the
\* quality string unchanged; the lengths are preserved in both cases.
C5_ReverseStrandIsReverseComplemented ==
    Returned("get_sequence_quality") =>
        LET aln == fn_call.aln
            sequence == fn_ret.value[1]
            quality == fn_ret.value[2]
            n == Len(aln.seq)
        IN  /\ Len(sequence) = n
            /\ Len(quality) = Len(aln.qual)
            /\ aln.is_reverse =>
                  /\ \A i \in 1..n : sequence[i] = BaseComplement(aln.seq[n + 1 - i])
                  /\ \A i \in 1..n : quality[i] = aln.qual[n + 1 - i]
            /\ ~aln.is_reverse =>
                  /\ \A i \in 1..n : sequence[i] = upper_char(aln.seq[i])
                  /\ quality = aln.qual

C5_Witness ==
    /\ Returned("get_sequence_quality")
    /\ fn_call.aln.is_reverse
    /\ fn_call.aln.seq = <<"A", "G">>
    /\ fn_call.aln.qual = <<"!", "I">>
    /\ fn_ret.value = << <<"C", "T">>, <<"I", "!">> >>

OutsideWindow(tlen, isize_min, isize_max) ==
    Abs(tlen) < isize_min \/ Abs(tlen) > isize_max

\* C6 as stated: discordant returns true iff either read of the pair (aln or
\* mate) has template length 0, or the absolute template length is < isize_min
\* or > isize_max.
C6_EitherReadZeroTlen ==
    Returned("discordant") =>
        (fn_ret.value <=>
            \/ fn_call.aln.tlen = 0
            \/ fn_call.mate.tlen = 0
            \/ OutsideWindow(fn_call.aln.tlen, fn_call.isize[1], fn_call.isize[2]))

\* C6 amended: discordant returns true iff aln, its first argument, has template
\* length 0 or an absolute template length < isize_min or > isize_max, whatever
\* the template length of mate; with the default bounds 300 and 400 it returns
\* false for absolute template lengths of aln of 300 through 400 and true
\* otherwise.
C6_FirstReadTlenDecides ==
    /\ Returned("discordant") =>
          (fn_ret.value <=>
              \/ fn_call.aln.tlen = 0
              \/ OutsideWindow(fn_call.aln.tlen, fn_call.isize[1], fn_call.isize[2]))
    /\ Returned("discordant_default") =>
          (fn_ret.value = FALSE <=>
              (300 <= Abs(fn_call.aln.tlen) /\ Abs(fn_call.aln.tlen) <= 400))

C6_Witness ==
    /\ Returned("discordant")
    /\ fn_call.aln.tlen = 350
    /\ fn_call.mate.tlen = 0
    /\ fn_call.isize = <<300, 400>>
    /\ fn_ret.value = FALSE

====
